---- MODULE Spec2Model ----
(***************************************************************************)
(* Model of src/main.py (the Lummi image scraper): the top-level handler,  *)
(* main, setup_driver, the scroll loop, the download loop, download_image  *)
(* and clean_filename.                                                     *)
(*                                                                         *)
(* Python strings are modelled as tuples of one-character strings, so that *)
(* replace/lower/re.sub/slicing and the substring test are computed.       *)
(* A missing attribute (None) and the empty string are both falsy in every *)
(* place the code tests them; both are modelled by the empty tuple.        *)
(***************************************************************************)
EXTENDS Integers, Sequences, FiniteSets, TLC

VARIABLES
    pc,             \* position of the single thread of control
    exc,            \* exception propagating out of the current frame, or "none"
    RETRY_ATTEMPTS, \* module global, main.py:23
    max_images,     \* main.py:71
    browser,        \* main.py:72
    session,        \* requests.Session: "none", "open", "closed"
    driver,         \* WebDriver: "none", "chrome", "firefox", "quit"
    page,           \* the result page's height signal: [hs, grow]
    nreads,         \* number of scrollHeight reads answered by the page
    last_height,    \* main.py:102,109
    img_tags,       \* main.py:114
    i,              \* index of the img tag the for loop of main.py:118 is at
    downloaded,     \* main.py:115
    title,          \* main.py:127
    filename,       \* main.py:128
    url,            \* full_src, main.py:126
    attempt,        \* loop variable of main.py:51
    response,       \* main.py:53
    ret,            \* value returned by download_image: "none", "True", "False"
    files,          \* the download folder: filename -> sequence of chunks
    hist,           \* history: outcome of each attempt of the current call
    nGets,          \* history: GET requests issued by the current call
    slept,          \* history: time.sleep(REQUEST_DELAY) ran since the last GET
    starts,         \* history: the calls of download_image made by main
    results,        \* history: the values those calls returned
    cycles,         \* history: scroll/measure cycles performed
    failure,        \* history: the failure outside download_image, or "none"
    caught,         \* history: the except clauses that handled an exception
    printed,        \* history: error messages printed to the user
    summary,        \* history: <<n>> once "Downloaded n images" is printed
    cleanup         \* history: driver.quit() / session.close() calls

vars == <<pc, exc, RETRY_ATTEMPTS, max_images, browser, session, driver, page,
          nreads, last_height, img_tags, i, downloaded, title, filename, url,
          attempt, response, ret, files, hist, nGets, slept, starts, results,
          cycles, failure, caught, printed, summary, cleanup>>

(***************************************************************************)
(* Bounds of the model.                                                    *)
(***************************************************************************)
MaxRetry == 3
MaxChunks == 2
MaxTags == 2
MaxImagesIn == 1
MaxReads == 3
MaxHeight == 3
MaxPad == 50
MaxPrefix == 2
MaxCycles == MaxReads + 2

(***************************************************************************)
(* Program constants.                                                      *)
(***************************************************************************)
MAX_IMAGES == 50
DefaultRetryAttempts == 3
NameLimit == 50

\* ---------------------------------------------------------------------------
\* Strings
\* ---------------------------------------------------------------------------
UpperChars == {"A", "C", "R"}
LowerChars == {"a", "b", "c", "d", "e", "g", "i", "j", "m", "p", "r"}
DigitChars == {"0", "1", "2", "3", "4", "5", "6", "7", "8", "9"}
\* \w of the re module: letters, digits and the underscore
WordChars == UpperChars \cup LowerChars \cup DigitChars \cup {"_"}
\* \s of the re module: space, tab, newline, ...
SpaceChars == {" ", "\t", "\n"}

\* str.lower(), one character
LowerChar(c) ==
    CASE c = "A" -> "a"
      [] c = "C" -> "c"
      [] c = "R" -> "r"
      [] OTHER -> c

\* str.replace(' ', '_'), one character
ReplaceSpace(c) == IF c = " " THEN "_" ELSE c

\* the characters re.sub(r'[^\w\s.-]', '', ...) keeps
Kept(c) == c \in WordChars \cup SpaceChars \cup {".", "-"}

RECURSIVE Filter(_)
Filter(s) ==
    IF s = <<>> THEN <<>>
    ELSE IF Kept(Head(s)) THEN <<Head(s)>> \o Filter(Tail(s))
    ELSE Filter(Tail(s))

Min(a, b) == IF a < b THEN a ELSE b

\* s[:n]
Truncate(s, n) == SubSeq(s, 1, Min(n, Len(s)))

clean_filename(name) ==
    Truncate(Filter([k \in 1..Len(name) |-> LowerChar(ReplaceSpace(name[k]))]),
             NameLimit)

Jpg == <<".", "j", "p", "g">>
Http == <<"h", "t", "t", "p">>

\* sub in s
Contains(sub, s) ==
    \E k \in 1..(Len(s) - Len(sub) + 1) : SubSeq(s, k, k + Len(sub) - 1) = sub

DigitOf == <<"0", "1", "2", "3", "4", "5", "6", "7", "8", "9">>

\* str(n) for n >= 0
RECURSIVE ToStr(_)
ToStr(n) ==
    IF n < 10 THEN <<DigitOf[n + 1]>>
    ELSE ToStr(n \div 10) \o <<DigitOf[(n % 10) + 1]>>

\* img.get('alt') or f"image_{downloaded}"
TitleOf(img, n) ==
    IF img.alt # <<>> THEN img.alt
    ELSE <<"i", "m", "a", "g", "e", "_">> \o ToStr(n)

\* img.get('data-fullsrc') or src
FullSrc(img) == IF img.fullsrc # <<>> THEN img.fullsrc ELSE img.src

\* not (not src or 'http' not in src)
ValidSrc(src) == src # <<>> /\ Contains(Http, src)

\* ---------------------------------------------------------------------------
\* download_image (main.py:49-66)
\* ---------------------------------------------------------------------------
\* what download_image leaves alone
mainVars == <<RETRY_ATTEMPTS, max_images, browser, session, driver, page,
              nreads, last_height, img_tags, i, downloaded, title, filename,
              url, starts, results, cycles, failure, caught, printed, summary,
              cleanup>>

\* response: its status and the chunks of the streamed body read so far
NoResponse == [status |-> 0, body |-> <<>>]

\* the first n chunks of the body the server sends in answer to the k-th GET
\* of u; every body is MaxChunks chunks long
Body(u, k, n) == [c \in 1..n |-> <<u, k, c>>]

\* variant: the file opened in append mode, 'ab'
OpenAppend(fs, fn) ==
    [f \in (DOMAIN fs) \cup {fn} |-> IF f \in DOMAIN fs THEN fs[f] ELSE <<>>]

\* open(file_path, 'wb'): creates the file, or truncates it
OpenWB(fs, fn) ==
    [f \in (DOMAIN fs) \cup {fn} |-> IF f = fn THEN <<>> ELSE fs[f]]

\* f.write(chunk) for each chunk of chunks
WriteChunks(fs, fn, chunks) == [fs EXCEPT ![fn] = @ \o chunks]

\* the exception an attempt's failure raises ("none": no exception, the
\* else branch of main.py:61)
Raised(kind) ==
    CASE kind = "get_exc" -> "RequestException"
      [] kind = "open_exc" -> "OSError"
      [] kind = "write_exc" -> "OSError"
      [] OTHER -> "none"

\* variant: `except requests.RequestException`
ExceptRequestsOnly(e) == IF e = "RequestException" THEN "none" ELSE e

\* `except Exception` of main.py:63: the exception still propagating after it
ExceptClause(e) ==
    IF e \in {"RequestException", "OSError", "ValueError",
              "WebDriverException"}
    THEN "none" ELSE e

\* variant: a 404 is not retried
NoRetryOn404(a, kind) == IF kind = "status404" THEN RETRY_ATTEMPTS ELSE a + 1

\* the for loop of main.py:51 moves to the next attempt whatever failed
NextAttempt(a, kind) == a + 1

\* the rest of a failed attempt: the handler, the sleep of main.py:65, the
\* next iteration
AttemptFails(kind) ==
    /\ hist' = Append(hist, kind)
    /\ ret' = ret
    /\ IF ExceptClause(Raised(kind)) = "none"
       THEN /\ slept' = TRUE
            /\ attempt' = NextAttempt(attempt, kind)
            /\ pc' = "dl"
            /\ exc' = exc
       ELSE /\ slept' = FALSE
            /\ attempt' = attempt
            /\ pc' = "finally_quit"
            /\ exc' = ExceptClause(Raised(kind))

\* session.get raises (timeout, connection error)
GetRaises ==
    /\ response' = response
    /\ files' = files
    /\ AttemptFails("get_exc")

\* the response's status is not 200
BadStatus(s) ==
    /\ response' = [status |-> s, body |-> <<>>]
    /\ files' = files
    /\ AttemptFails(IF s = 404 THEN "status404" ELSE "status500")

\* status 200, open() raises; nothing of the streamed body is read yet
OpenRaises ==
    /\ response' = [status |-> 200, body |-> <<>>]
    /\ files' = files
    /\ AttemptFails("open_exc")

\* status 200, the file is opened, j chunks are read and written and then
\* iter_content or f.write raises
WriteRaises(j) ==
    /\ response' = [status |-> 200, body |-> Body(url, nGets + 1, j)]
    /\ files' = WriteChunks(OpenWB(files, filename), filename,
                            Body(url, nGets + 1, j))
    /\ AttemptFails("write_exc")

\* status 200 and the whole body written: return True (main.py:60)
Success(n) ==
    /\ response' = [status |-> 200, body |-> Body(url, nGets + 1, n)]
    /\ files' = WriteChunks(OpenWB(files, filename), filename,
                            Body(url, nGets + 1, n))
    /\ hist' = Append(hist, "ok")
    /\ ret' = "True"
    /\ slept' = FALSE
    /\ pc' = "dl_ret"
    /\ UNCHANGED <<attempt, exc>>

\* one iteration of the for loop of main.py:51-65
Attempt ==
    /\ pc = "dl"
    /\ attempt < RETRY_ATTEMPTS
    /\ nGets' = nGets + 1
    /\ \/ GetRaises
       \/ \E s \in {404, 500} : BadStatus(s)
       \/ OpenRaises
       \/ \E j \in 0..(MaxChunks - 1) : WriteRaises(j)
       \/ Success(MaxChunks)
    /\ UNCHANGED mainVars

\* the for loop is exhausted: return False (main.py:66)
DownloadExhausted ==
    /\ pc = "dl"
    /\ attempt >= RETRY_ATTEMPTS
    /\ ret' = "False"
    /\ pc' = "dl_ret"
    /\ UNCHANGED <<exc, attempt, response, files, hist, nGets, slept>>
    /\ UNCHANGED mainVars

\* ---------------------------------------------------------------------------
\* main (main.py:68-138), setup_driver (main.py:26-43), __main__ (140-145)
\* ---------------------------------------------------------------------------
\* what the steps of main before the download loop leave alone
dlVars == <<RETRY_ATTEMPTS, title, filename, url, attempt, response, ret,
            files, hist, nGets, slept, starts, results>>

\* browser.lower()
BrowserLower(b) == IF b = "Firefox" THEN "firefox" ELSE b

BrowserInputs == {"chrome", "Firefox", "edge"}

\* the values int(input(...) or MAX_IMAGES) can produce
MaxImagesInputs == (0..MaxImagesIn) \cup {MAX_IMAGES}

\* main.py:70-79: the prompts, makedirs, the session
ReadInputs ==
    /\ pc = "input"
    /\ \/ \E m \in MaxImagesInputs : \E b \in BrowserInputs :
            /\ max_images' = m
            /\ browser' = b
            /\ session' = "open"
            /\ pc' = "setup"
            /\ UNCHANGED <<exc, failure>>
       \/ \* int() raises ValueError
          /\ exc' = "ValueError"
          /\ failure' = "input"
          /\ pc' = "toplevel"
          /\ UNCHANGED <<max_images, browser, session>>
    /\ UNCHANGED <<driver, page, nreads, last_height, img_tags, i, downloaded,
                   cycles, caught, printed, summary, cleanup>>
    /\ UNCHANGED dlVars

\* setup_driver: the driver it returns, or "none" when it raises ValueError
DriverFor(b) ==
    IF BrowserLower(b) = "chrome" THEN "chrome"
    ELSE IF BrowserLower(b) = "firefox" THEN "firefox"
    ELSE "none"

\* main.py:82 with setup_driver, main.py:26-43
SetupDriver ==
    /\ pc = "setup"
    /\ \/ /\ DriverFor(browser) # "none"
          /\ driver' = DriverFor(browser)
          /\ pc' = "nav"
          /\ UNCHANGED <<exc, failure>>
       \/ \* webdriver.Chrome / webdriver.Firefox raises
          /\ DriverFor(browser) # "none"
          /\ exc' = "WebDriverException"
          /\ failure' = "setup"
          /\ pc' = "toplevel"
          /\ UNCHANGED driver
       \/ \* raise ValueError("Unsupported browser ...")
          /\ DriverFor(browser) = "none"
          /\ exc' = "ValueError"
          /\ failure' = "setup"
          /\ pc' = "toplevel"
          /\ UNCHANGED driver
    /\ UNCHANGED <<max_images, browser, session, page, nreads, last_height,
                   img_tags, i, downloaded, cycles, caught, printed, summary,
                   cleanup>>
    /\ UNCHANGED dlVars

\* main.py:85-87
Navigate ==
    /\ pc = "nav"
    /\ \/ /\ pc' = "search"
          /\ UNCHANGED <<exc, failure>>
       \/ \* driver.get raises
          /\ exc' = "WebDriverException"
          /\ failure' = "nav"
          /\ pc' = "finally_quit"
    /\ UNCHANGED <<max_images, browser, session, driver, page, nreads,
                   last_height, img_tags, i, downloaded, cycles, caught,
                   printed, summary, cleanup>>
    /\ UNCHANGED dlVars

\* the height signals a result page can show: the reads hs, and after them
\* either the last value for ever or a page that keeps growing
Heights == 1..MaxHeight
Pages ==
    { [hs |-> h, grow |-> g] :
        h \in UNION { [1..n -> Heights] : n \in 1..MaxReads },
        g \in BOOLEAN }

\* the k-th read of document.body.scrollHeight
HeightAt(p, k) ==
    IF k <= Len(p.hs) THEN p.hs[k]
    ELSE IF p.grow THEN p.hs[Len(p.hs)] + (k - Len(p.hs))
    ELSE p.hs[Len(p.hs)]

\* variant: the handler without its `return`
SearchHandlerFallsThrough == "scroll_init"

\* where the handler of main.py:96-99 leaves main: `return`, to the finally
SearchHandlerExit == "finally_quit"

\* main.py:90-99
Search ==
    /\ pc = "search"
    /\ \/ /\ pc' = "scroll_init"
          /\ UNCHANGED <<failure, caught, printed>>
       \/ \* find_element / send_keys raises: caught at main.py:96
          /\ failure' = "search"
          /\ caught' = Append(caught, "main")
          /\ printed' = Append(printed, "Could not find search bar")
          /\ pc' = SearchHandlerExit
    /\ UNCHANGED <<exc, max_images, browser, session, driver, page, nreads,
                   last_height, img_tags, i, downloaded, cycles, summary,
                   cleanup>>
    /\ UNCHANGED dlVars

\* execute_script raises inside the scroll loop
ScrollRaises ==
    /\ exc' = "WebDriverException"
    /\ failure' = "scroll"
    /\ pc' = "finally_quit"
    /\ UNCHANGED <<nreads, last_height, cycles>>

\* main.py:102
ScrollInit ==
    /\ pc = "scroll_init"
    /\ \/ /\ last_height' = HeightAt(page, nreads + 1)
          /\ nreads' = nreads + 1
          /\ pc' = "scroll"
          /\ UNCHANGED <<exc, failure, cycles>>
       \/ ScrollRaises
    /\ UNCHANGED <<max_images, browser, session, driver, page, img_tags, i,
                   downloaded, caught, printed, summary, cleanup>>
    /\ UNCHANGED dlVars

\* main.py:107: the loop stops
ScrollStops(new_height, last) == new_height = last

\* variant: last_height never updated
KeepLastHeight(new_height, last) == last

\* main.py:109
NextLastHeight(new_height, last) == new_height

\* one pass of the while loop of main.py:103-109
ScrollCycle ==
    /\ pc = "scroll"
    /\ cycles < MaxCycles
    /\ \/ LET new_height == HeightAt(page, nreads + 1) IN
            /\ nreads' = nreads + 1
            /\ cycles' = cycles + 1
            /\ IF ScrollStops(new_height, last_height)
               THEN /\ pc' = "parse"
                    /\ last_height' = last_height
               ELSE /\ pc' = "scroll"
                    /\ last_height' = NextLastHeight(new_height, last_height)
            /\ UNCHANGED <<exc, failure>>
       \/ ScrollRaises
    /\ UNCHANGED <<max_images, browser, session, driver, page, img_tags, i,
                   downloaded, caught, printed, summary, cleanup>>
    /\ UNCHANGED dlVars

\* the img tags of the parsed page: src, alt and data-fullsrc attributes
HttpA == <<"h", "t", "t", "p", "a">>
HttpB == <<"h", "t", "t", "p", "b">>
Imgs ==
    { [src |-> <<>>, alt |-> <<"a">>, fullsrc |-> HttpB],
      [src |-> <<"d", "a", "t", "a">>, alt |-> <<>>, fullsrc |-> <<>>],
      [src |-> HttpA, alt |-> <<>>, fullsrc |-> <<>>],
      [src |-> <<"x">> \o HttpA, alt |-> <<"A", " ", "b", "!">>,
       fullsrc |-> HttpB] }
TagLists == UNION { [1..n -> Imgs] : n \in 0..MaxTags }

\* main.py:113-117
Parse ==
    /\ pc = "parse"
    /\ \/ /\ \E tags \in TagLists : img_tags' = tags
          /\ downloaded' = 0
          /\ i' = 1
          /\ pc' = "loop"
          /\ UNCHANGED <<exc, failure>>
       \/ \* driver.page_source raises
          /\ exc' = "WebDriverException"
          /\ failure' = "parse"
          /\ pc' = "finally_quit"
          /\ UNCHANGED <<img_tags, downloaded, i>>
    /\ UNCHANGED <<max_images, browser, session, driver, page, nreads,
                   last_height, cycles, caught, printed, summary, cleanup>>
    /\ UNCHANGED dlVars

\* variant: `if downloaded > max_images`
LoopBreaksLate(d, m) == d > m

\* main.py:119
LoopBreaks(d, m) == d >= m

\* the head of the for loop of main.py:118-130, up to the call of
\* download_image
LoopIter ==
    /\ pc = "loop"
    /\ IF i > Len(img_tags) \/ LoopBreaks(downloaded, max_images)
       THEN /\ pc' = "summary"
            /\ UNCHANGED <<i, title, filename, url, attempt, response, hist,
                           nGets, starts>>
       ELSE IF ~ValidSrc(img_tags[i].src)
       THEN /\ i' = i + 1
            /\ pc' = "loop"
            /\ UNCHANGED <<title, filename, url, attempt, response, hist,
                           nGets, starts>>
       ELSE /\ title' = TitleOf(img_tags[i], downloaded)
            /\ filename' = clean_filename(title' \o Jpg)
            /\ url' = FullSrc(img_tags[i])
            /\ attempt' = 0
            /\ response' = NoResponse
            /\ hist' = <<>>
            /\ nGets' = 0
            /\ starts' = Append(starts, [idx |-> i, delayed |-> slept])
            /\ pc' = "dl"
            /\ i' = i
    /\ UNCHANGED <<exc, RETRY_ATTEMPTS, max_images, browser, session, driver,
                   page, nreads, last_height, img_tags, downloaded, ret, files,
                   slept, results, cycles, failure, caught, printed, summary,
                   cleanup>>

\* main.py:130-131: the counter after download_image returned r
Count(d, r) == IF r = "True" THEN d + 1 ELSE d

\* download_image has returned (its frame, with attempt and response, is
\* gone): main.py:130-131 and the step to the next img tag
AfterDownload ==
    /\ pc = "dl_ret"
    /\ results' = Append(results, [idx |-> i, fn |-> filename, ret |-> ret])
    /\ downloaded' = Count(downloaded, ret)
    /\ i' = i + 1
    /\ ret' = "none"
    /\ attempt' = 0
    /\ response' = NoResponse
    /\ hist' = <<>>
    /\ nGets' = 0
    /\ pc' = "loop"
    /\ UNCHANGED <<exc, RETRY_ATTEMPTS, max_images, browser, session, driver,
                   page, nreads, last_height, img_tags, title, filename, url,
                   files, slept, starts, cycles, failure, caught, printed,
                   summary, cleanup>>

\* main.py:133-134
Summary ==
    /\ pc = "summary"
    /\ summary' = <<downloaded>>
    /\ pc' = "finally_quit"
    /\ UNCHANGED <<exc, max_images, browser, session, driver, page, nreads,
                   last_height, img_tags, i, downloaded, cycles, failure,
                   caught, printed, cleanup>>
    /\ UNCHANGED dlVars

\* main.py:137
FinallyQuit ==
    /\ pc = "finally_quit"
    /\ driver' = "quit"
    /\ cleanup' = Append(cleanup, "quit")
    /\ pc' = "finally_close"
    /\ UNCHANGED <<exc, max_images, browser, session, page, nreads,
                   last_height, img_tags, i, downloaded, cycles, failure,
                   caught, printed, summary>>
    /\ UNCHANGED dlVars

\* main.py:138, and main is left
FinallyClose ==
    /\ pc = "finally_close"
    /\ session' = "closed"
    /\ cleanup' = Append(cleanup, "close")
    /\ pc' = "toplevel"
    /\ UNCHANGED <<exc, max_images, browser, driver, page, nreads,
                   last_height, img_tags, i, downloaded, cycles, failure,
                   caught, printed, summary>>
    /\ UNCHANGED dlVars

\* main.py:145
TopLevelMessage == "An error occurred"

\* variant: `except ValueError`
TopLevelExceptValueError(e) == IF e = "ValueError" THEN "none" ELSE e

\* `except Exception` of main.py:143: the exception still propagating after it
TopLevelExcept(e) ==
    IF e \in {"RequestException", "OSError", "ValueError",
              "WebDriverException"}
    THEN "none" ELSE e

\* main.py:140-145: main() has returned or raised
TopLevel ==
    /\ pc = "toplevel"
    /\ IF TopLevelExcept(exc) = exc
       THEN UNCHANGED <<exc, caught, printed>>
       ELSE /\ caught' = Append(caught, "__main__")
            /\ printed' = Append(printed, TopLevelMessage)
            /\ exc' = "none"
    /\ pc' = "exit"
    /\ UNCHANGED <<max_images, browser, session, driver, page, nreads,
                   last_height, img_tags, i, downloaded, cycles, failure,
                   summary, cleanup>>
    /\ UNCHANGED dlVars

\* ---------------------------------------------------------------------------
\* Specifications
\* ---------------------------------------------------------------------------
\* the state every run starts from, but for the variables in the parameters
Start(p, r, se, d, pg, u, fn, fs, t) ==
    /\ pc = p
    /\ exc = "none"
    /\ RETRY_ATTEMPTS = r
    /\ max_images = 0
    /\ browser = "chrome"
    /\ session = se
    /\ driver = d
    /\ page = pg
    /\ nreads = 0
    /\ last_height = 0
    /\ img_tags = <<>>
    /\ i = 1
    /\ downloaded = 0
    /\ title = t
    /\ filename = fn
    /\ url = u
    /\ attempt = 0
    /\ response = NoResponse
    /\ ret = "none"
    /\ files = fs
    /\ hist = <<>>
    /\ nGets = 0
    /\ slept = FALSE
    /\ starts = <<>>
    /\ results = <<>>
    /\ cycles = 0
    /\ failure = "none"
    /\ caught = <<>>
    /\ printed = <<>>
    /\ summary = <<>>
    /\ cleanup = <<>>

\* the result page of the runs of the whole program: stable after one growth
MainPage == [hs |-> <<1, 2>>, grow |-> FALSE]

\* python main.py, the download folder empty
Init ==
    Start("input", DefaultRetryAttempts, "none", "none", MainPage, <<>>, <<>>,
          <<>>, <<>>)

Next ==
    \/ ReadInputs
    \/ SetupDriver
    \/ Navigate
    \/ Search
    \/ ScrollInit
    \/ ScrollCycle
    \/ Parse
    \/ LoopIter
    \/ Attempt
    \/ DownloadExhausted
    \/ AfterDownload
    \/ Summary
    \/ FinallyQuit
    \/ FinallyClose
    \/ TopLevel

Spec == Init /\ [][Next]_vars

\* download_image(url, folder, filename, session) called on its own, for
\* every RETRY_ATTEMPTS >= 1 up to MaxRetry, the destination absent or left
\* by an earlier run
FetchName == <<"a">> \o Jpg
OldFile == [f \in {FetchName} |-> <<<<HttpA, 0, 1>>, <<HttpA, 0, 2>>>>]
InitFetch ==
    \E r \in 1..MaxRetry : \E fs \in {<<>>, OldFile} :
        Start("dl", r, "open", "none", MainPage, HttpA, FetchName, fs, <<"a">>)

NextFetch ==
    \/ Attempt
    \/ DownloadExhausted

SpecFetch == InitFetch /\ [][NextFetch]_vars

\* the scroll loop of main.py:101-109 on every page of Pages
InitScroll ==
    \E pg \in Pages :
        Start("scroll_init", DefaultRetryAttempts, "open", "chrome", pg, <<>>,
              <<>>, <<>>, <<>>)

NextScroll ==
    \/ ScrollInit
    \/ ScrollCycle

SpecScroll == InitScroll /\ [][NextScroll]_vars

\* clean_filename(f"{title}.jpg") of main.py:128 on the titles of Titles
TitleChars == {"A", "a", "1", "_", " ", "\t", ".", "-", "!"}
Pad(k) == [j \in 1..k |-> "a"]
PadLens == {0} \cup ((MaxPad - 4)..MaxPad)
RedCar == <<"R", "e", "d", " ", "C", "a", "r", "!", "!", " ", "2", "0", "2", "4">>
Titles ==
    { pre \o Pad(k) :
        pre \in UNION { [1..n -> TitleChars] : n \in 0..MaxPrefix },
        k \in PadLens } \cup {RedCar}

InitClean ==
    \E t \in Titles :
        Start("clean", DefaultRetryAttempts, "none", "none", MainPage, <<>>,
              <<>>, <<>>, t)

\* main.py:128
CleanName ==
    /\ pc = "clean"
    /\ filename' = clean_filename(title \o Jpg)
    /\ pc' = "cleaned"
    /\ UNCHANGED <<exc, RETRY_ATTEMPTS, max_images, browser, session, driver,
                   page, nreads, last_height, img_tags, i, downloaded, title,
                   url, attempt, response, ret, files, hist, nGets, slept,
                   starts, results, cycles, failure, caught, printed, summary,
                   cleanup>>

NextClean == CleanName

SpecClean == InitClean /\ [][NextClean]_vars

\* ---------------------------------------------------------------------------
\* Properties
\* ---------------------------------------------------------------------------
AllFailed == \A k \in 1..Len(hist) : hist[k] # "ok"

\* C1: a call of download_image in which every attempt fails, by a non-200
\* status or by an exception, in any mix, issues exactly RETRY_ATTEMPTS GETs
\* and returns False (SpecFetch: every RETRY_ATTEMPTS in 1..MaxRetry).
C1_AllFailExactlyMaxAttempts ==
    /\ nGets = Len(hist)
    /\ nGets <= RETRY_ATTEMPTS
    /\ (pc = "dl_ret" /\ AllFailed) =>
           /\ ret = "False"
           /\ nGets = RETRY_ATTEMPTS
    /\ (pc # "dl_ret" /\ AllFailed) => (pc = "dl" /\ ret = "none")

C1_Witness ==
    /\ pc = "dl_ret"
    /\ ret = "False"
    /\ RETRY_ATTEMPTS = 3
    /\ hist = <<"status404", "get_exc", "write_exc">>
    /\ nGets = 3

\* C2: a call of download_image whose first successful attempt is attempt k
\* issues exactly k GETs, returns True, and leaves the destination file equal
\* to the body of the k-th response.
C2_SuccessAtAttemptK ==
    /\ \A k \in 1..Len(hist) :
           hist[k] = "ok" => (k = Len(hist) /\ pc = "dl_ret" /\ ret = "True")
    /\ (pc = "dl_ret" /\ ret = "True") =>
           LET k == Len(hist) IN
               /\ k \in 1..RETRY_ATTEMPTS
               /\ hist[k] = "ok"
               /\ nGets = k
               /\ response.status = 200
               /\ response.body = Body(url, k, MaxChunks)
               /\ filename \in DOMAIN files
               /\ files[filename] = response.body

C2_Witness ==
    /\ pc = "dl_ret"
    /\ ret = "True"
    /\ hist = <<"status500", "write_exc", "ok">>
    /\ files[filename] = Body(url, 3, MaxChunks)

AfterLoop == {"summary", "finally_quit", "finally_close", "toplevel", "exit"}

\* C3: after the download loop, for every image whose download was
\* attempted, a file exists at its destination path iff download_image
\* returned True for it.
C3_FileIffSuccess ==
    pc \in AfterLoop =>
        \A r \in 1..Len(results) :
            (results[r].fn \in DOMAIN files) <=> (results[r].ret = "True")

\* "becomes constant after n reads": the least n from which every read of
\* the page equals the n-th
ConstAfter(p) ==
    CHOOSE n \in 1..Len(p.hs) :
        /\ \A k \in n..Len(p.hs) : p.hs[k] = p.hs[n]
        /\ \A m \in 1..(n - 1) : \E k \in m..Len(p.hs) : p.hs[k] # p.hs[m]

\* the cycles c whose read equals the read before it
Repeats(p) == { c \in 1..Len(p.hs) : HeightAt(p, c + 1) = HeightAt(p, c) }

FirstRepeat(p) == CHOOSE c \in Repeats(p) : \A d \in Repeats(p) : c <= d

\* C4 as stated: on a height sequence that becomes constant after n reads the
\* scroll loop performs exactly n cycles, and on a sequence that never
\* repeats a value on consecutive reads it does not terminate.
C4_ExactlyNCycles ==
    /\ (pc = "parse" /\ ~page.grow) => cycles = ConstAfter(page)
    /\ Repeats(page) = {} => pc # "parse"

\* C4 (amended): the scroll loop stops precisely at the first cycle whose
\* read equals the read before it; on a sequence that becomes constant after
\* n reads that is at most n cycles, and exactly n when no two consecutive
\* reads before are equal; on a sequence that never repeats a value on
\* consecutive reads the loop does not terminate.
C4_StopsAtFirstRepeat ==
    /\ cycles = IF nreads = 0 THEN 0 ELSE nreads - 1
    /\ pc = "parse" =>
           /\ Repeats(page) # {}
           /\ cycles = FirstRepeat(page)
           /\ last_height = HeightAt(page, cycles)
    /\ (pc = "parse" /\ ~page.grow) =>
           /\ cycles <= ConstAfter(page)
           /\ (\A c \in 1..(ConstAfter(page) - 1) : c \notin Repeats(page))
                  => cycles = ConstAfter(page)
    /\ pc = "scroll" =>
           \A c \in 1..cycles : c \notin Repeats(page)

C4_Witness ==
    /\ pc = "parse"
    /\ page = [hs |-> <<1, 2, 3>>, grow |-> FALSE]
    /\ cycles = 3

\* C5: downloads are attempted one at a time in document order, and
\* time.sleep(REQUEST_DELAY) runs between every two consecutive downloads.
C5_OrderedAndDelayed ==
    /\ Len(starts) - Len(results) \in {0, 1}
    /\ \A k \in 2..Len(starts) :
           /\ starts[k].idx > starts[k - 1].idx
           /\ starts[k].delayed

Valid(k) == ValidSrc(img_tags[k].src)
Attempted == { starts[k].idx : k \in 1..Len(starts) }
Succeeded == { results[r].idx : r \in { q \in 1..Len(results) : results[q].ret = "True" } }
SucceededBefore(k) == { j \in Succeeded : j < k }

\* C6: for max_images >= 0 the counter never exceeds max_images; images
\* without a valid src are never downloaded nor counted; no download starts
\* once the counter has reached max_images; and the reported count is
\* min(max_images, number of valid images whose download succeeds), every
\* valid image having been tried unless the counter reached max_images.
C6_CountIsMin ==
    /\ downloaded <= max_images
    /\ downloaded = Cardinality(Succeeded)
    /\ \A k \in Attempted :
           /\ Valid(k)
           /\ Cardinality(SucceededBefore(k)) < max_images
    /\ summary # <<>> =>
           LET untried == { k \in 1..Len(img_tags) : Valid(k) /\ k \notin Attempted }
           IN  /\ summary[1] = Min(max_images, Cardinality(Succeeded))
               /\ untried # {} => summary[1] = max_images

C6_Witness ==
    /\ summary = <<2>>
    /\ max_images = MAX_IMAGES
    /\ Len(img_tags) = 2
    /\ Attempted = {1, 2}

\* C7: every failure inside an attempt of download_image ends in a retry or
\* in the return value False, never in an exception leaving download_image;
\* after a failed download the loop goes on with the next image and the
\* counter is unchanged.
C7_FailuresSwallowed ==
    /\ [](hist # <<>> =>
            /\ pc \in {"dl", "dl_ret"}
            /\ exc = "none"
            /\ (pc = "dl_ret" /\ AllFailed) => ret = "False")
    /\ [][(pc = "dl_ret" /\ ret = "False") =>
            (pc' = "loop" /\ i' = i + 1 /\ downloaded' = downloaded)]_vars

C7_Witness ==
    /\ pc = "dl"
    /\ Len(results) = 1
    /\ results[1].ret = "False"
    /\ downloaded = 0
    /\ i = 2
    /\ hist = <<"open_exc", "write_exc">>

\* C8 as stated: every failure outside download_image is caught exactly once,
\* by the handler of __main__, and reported as "An error occurred".
C8_AllAtTopLevel ==
    (pc = "exit" /\ failure # "none") =>
        /\ caught = <<"__main__">>
        /\ printed = <<"An error occurred">>

\* C8 (amended): a failure of the inputs, of the driver setup, of the
\* navigation, of the scrolling or of the parsing is caught exactly once, by
\* the handler of __main__, and reported as "An error occurred"; a failure
\* of the search control is caught exactly once, inside main, and reported
\* as "Could not find search bar".
C8_TwoHandlers ==
    pc = "exit" =>
        /\ exc = "none"
        /\ failure = "none" => (caught = <<>> /\ printed = <<>>)
        /\ failure = "search" =>
               (caught = <<"main">> /\ printed = <<"Could not find search bar">>)
        /\ failure \notin {"none", "search"} =>
               (caught = <<"__main__">> /\ printed = <<"An error occurred">>)

C8_Witness ==
    /\ pc = "exit"
    /\ failure = "setup"
    /\ browser = "edge"
    /\ printed = <<"An error occurred">>

\* C10: once setup_driver has returned a driver, main is left only after one
\* driver.quit() followed by one session.close(); and when the search control
\* is not found, nothing is scrolled, parsed or downloaded before them.
C10_CleanupOnEveryExit ==
    /\ cleanup \in {<<>>, <<"quit">>, <<"quit", "close">>}
    /\ (pc \in {"toplevel", "exit"} /\ driver # "none") =>
           /\ cleanup = <<"quit", "close">>
           /\ driver = "quit"
           /\ session = "closed"
    /\ failure = "search" =>
           /\ pc \in {"finally_quit", "finally_close", "toplevel", "exit"}
           /\ nreads = 0
           /\ cycles = 0
           /\ img_tags = <<>>
           /\ starts = <<>>

C10_Witness ==
    /\ pc = "exit"
    /\ failure = "search"
    /\ cleanup = <<"quit", "close">>

\* C9: the filename made from a title holds only word characters, dots and
\* hyphens (no whitespace, no other symbol), is at most 50 characters long,
\* and 'Red Car!! 2024' gives 'red_car_2024.jpg'.
C9_Sanitized ==
    pc = "cleaned" =>
        /\ \A k \in 1..Len(filename) : filename[k] \in WordChars \cup {".", "-"}
        /\ Len(filename) <= 50
        /\ title = RedCar =>
               filename = <<"r", "e", "d", "_", "c", "a", "r", "_", "2", "0", "2",
                            "4", ".", "j", "p", "g">>

====
